---- MODULE Spec2Model ----
(***************************************************************************)
(* Model of KMZtoJSON.py: a FastAPI service that loads four boundary       *)
(* layers at import time and, per uploaded KMZ, unpacks the archive into a *)
(* scratch directory, reads every embedded .kml, projects each placemark   *)
(* to UTM and attaches region / provincia / comuna / localidad by four     *)
(* chained left spatial joins.                                             *)
(*                                                                         *)
(* Conventions.  Text that the program transforms (file names, layer       *)
(* attributes, the zone label) is a sequence of one-character strings.     *)
(* Coordinates are binary floating point numbers on a grid: an integer n    *)
(* stands for n * 2^-FractionBits degrees.  Easting and northing are kept  *)
(* symbolic: the record names the CRS the transformer was built for.       *)
(***************************************************************************)
EXTENDS Integers, Sequences, FiniteSets, TLC

\* ------------------------------------------------------------------ bounds
NumReq == 2
MaxFiles == 2
MaxPlacemarks == 1
FractionBits == 1

\* ------------------------------------------------------- program constants
LonOffset == 180
ZoneWidth == 6
EpsgSouthBase == 32700
EpsgNorthBase == 32600
WGS84 == 4326
BadRequest == 400
ServerError == 500

\* --------------------------------------------------------- float arithmetic
\* A Python float is a binary number with MantissaBits significant bits.  The
\* grid step 2^-FractionBits degrees is the spacing of those numbers between
\* 128 and 256, the binade of 180; with FractionBits = 45 and so
\* MantissaBits = 53 this is binary64.  Counted in grid steps, a float is an
\* integer of at most MantissaBits significant bits.
UnitsPerDegree == 2 ^ FractionBits
MantissaBits   == FractionBits + 8

Deg(d) == d * UnitsPerDegree

Abs(n) == IF n < 0 THEN -n ELSE n

\* The spacing of the floats around magnitude n: 1 below 2^MantissaBits,
\* doubling with every further bit.
RECURSIVE UlpFrom(_, _, _)
UlpFrom(n, top, u) == IF n < top THEN u ELSE UlpFrom(n, 2 * top, 2 * u)

Ulp(n) == UlpFrom(Abs(n), 2 ^ MantissaBits, 1)

\* Round to nearest, ties to the even mantissa.
RoundMagnitude(n) ==
    LET u   == Ulp(n)
        lo  == (n \div u) * u
        rem == n - lo
    IN  IF 2 * rem < u THEN lo
        ELSE IF 2 * rem > u THEN lo + u
        ELSE IF (lo \div u) % 2 = 0 THEN lo ELSE lo + u

RoundToFloat(n) == IF n < 0 THEN -RoundMagnitude(-n) ELSE RoundMagnitude(n)

\* a + b on floats
fadd(a, b) == RoundToFloat(a + b)

\* ------------------------------------------------------------------- text
UpperCase == <<"A","B","C","D","E","F","G","H","I","J","K","L","M",
               "N","O","P","Q","R","S","T","U","V","W","X","Y","Z">>
LowerCase == <<"a","b","c","d","e","f","g","h","i","j","k","l","m",
               "n","o","p","q","r","s","t","u","v","w","x","y","z">>
Digits    == <<"0","1","2","3","4","5","6","7","8","9">>

InSeq(c, s) == \E i \in 1..Len(s) : s[i] = c

\* str.lower() on one character
LowerChar(c) ==
    IF InSeq(c, UpperCase)
    THEN LowerCase[CHOOSE i \in 1..Len(UpperCase) : UpperCase[i] = c]
    ELSE c

lower(s) == [i \in 1..Len(s) |-> LowerChar(s[i])]

endswith(s, suffix) ==
    /\ Len(s) >= Len(suffix)
    /\ SubSeq(s, Len(s) - Len(suffix) + 1, Len(s)) = suffix

DotKml == <<".", "k", "m", "l">>
DotKmz == <<".", "k", "m", "z">>

\* Characters with a canonical decomposition (base letter, combining mark),
\* named by code point: U+00D1 is N with tilde, U+00F1 n with tilde,
\* U+00E1 U+00E9 U+00ED U+00F3 U+00FA the acute-accented vowels a e i o u.
Tilde == "U+0303"
Acute == "U+0301"
NFKDChar(c) ==
    CASE c = "U+00D1" -> <<"N", Tilde>>
      [] c = "U+00F1" -> <<"n", Tilde>>
      [] c = "U+00E1" -> <<"a", Acute>>
      [] c = "U+00E9" -> <<"e", Acute>>
      [] c = "U+00ED" -> <<"i", Acute>>
      [] c = "U+00F3" -> <<"o", Acute>>
      [] c = "U+00FA" -> <<"u", Acute>>
      [] OTHER   -> <<c>>

RECURSIVE NFKD(_)
NFKD(s) == IF s = <<>> THEN <<>> ELSE NFKDChar(Head(s)) \o NFKD(Tail(s))

IsAscii(c) ==
    \/ InSeq(c, UpperCase) \/ InSeq(c, LowerCase) \/ InSeq(c, Digits)
    \/ c \in {" ", "-", ".", "_"}

\* .encode("ASCII", "ignore").decode(...): characters outside ASCII vanish
EncodeAsciiIgnore(s) == SelectSeq(s, IsAscii)

\* A missing value of a column (pandas NaN).  Its one element is not a
\* character, so no text equals it.
NaN == <<"<NaN>">>

quitar_tildes(txt) ==
    IF txt = NaN THEN txt ELSE EncodeAsciiIgnore(NFKD(txt))

\* f"{zone}": the decimal digits of a non-negative integer
RECURSIVE Decimal(_)
Decimal(n) ==
    IF n < 10 THEN <<Digits[n + 1]>>
    ELSE Decimal(n \div 10) \o <<Digits[(n % 10) + 1]>>

\* ----------------------------------------------------------- lonlat_to_utm
\* zone = int((lon + 180) // 6) + 1: the sum is a float, the floor division of
\* a float by 6.0 is the floor of the exact quotient.
Zone(lon) == (fadd(lon, Deg(LonOffset)) \div Deg(ZoneWidth)) + 1

South(lat) == lat < 0

Epsg(lon, lat) ==
    IF South(lat) THEN EpsgSouthBase + Zone(lon) ELSE EpsgNorthBase + Zone(lon)

\* Transformer.from_crs(4326, epsg, always_xy=True).transform(lon, lat)
Transform(from, to, lon, lat) ==
    [e |-> [axis |-> "E", from |-> from, to |-> to, lon |-> lon, lat |-> lat],
     n |-> [axis |-> "N", from |-> from, to |-> to, lon |-> lon, lat |-> lat]]

lonlat_to_utm(lon, lat) ==
    LET zone  == Zone(lon)
        south == South(lat)
        epsg  == Epsg(lon, lat)
        en    == Transform(WGS84, epsg, lon, lat)
    IN  <<en.e, en.n, Decimal(zone) \o <<IF south THEN "S" ELSE "N">> >>

\* ------------------------------------------------------------ data frames
\* A frame is a sequence of rows; a row is a sequence of <<column, value>>
\* pairs in column order.
HasCol(row, c) == \E i \in 1..Len(row) : row[i][1] = c

Get(row, c) == row[CHOOSE i \in 1..Len(row) : row[i][1] = c][2]

\* .drop(columns=c)
Drop(row, c) == SelectSeq(row, LAMBDA p : p[1] # c)

\* frame[[c1, c2, ...]]
Select(row, cols) == [i \in 1..Len(cols) |-> <<cols[i], Get(row, cols[i])>>]

\* .rename(columns={from: to}) returns a new frame; the receiver is untouched
RenameRow(row, from, to) ==
    [i \in 1..Len(row) |-> IF row[i][1] = from THEN <<to, row[i][2]>> ELSE row[i]]

rename(rows, from, to) == [i \in 1..Len(rows) |-> RenameRow(rows[i], from, to)]

\* frame[c] = frame[c].apply(quitar_tildes)
ApplyQuitarTildes(rows, c) ==
    [i \in 1..Len(rows) |->
        [k \in 1..Len(rows[i]) |->
            IF rows[i][k][1] = c
            THEN <<c, quitar_tildes(rows[i][k][2])>>
            ELSE rows[i][k]]]

\* frame[c] = frame[c].fillna(value)
fillna(rows, c, value) ==
    [i \in 1..Len(rows) |->
        [k \in 1..Len(rows[i]) |->
            IF rows[i][k][1] = c /\ rows[i][k][2] = NaN
            THEN <<c, value>>
            ELSE rows[i][k]]]

\* --------------------------------------------------------------- geometry
\* A polygon is an axis-parallel rectangle; a point is within it when it is
\* in its interior (the "within" predicate excludes the boundary).
Rect(w, s, e, n) ==
    [type |-> "Polygon", w |-> Deg(w), s |-> Deg(s), e |-> Deg(e), n |-> Deg(n)]

Point(lon, lat) == [type |-> "Point", x |-> lon, y |-> lat]

within(pt, poly) ==
    /\ poly.w < pt.x /\ pt.x < poly.e
    /\ poly.s < pt.y /\ pt.y < poly.n

\* -------------------------------------------------- the boundary shapefiles
LayerVars == <<"gdf_region", "gdf_provincia", "gdf_comuna", "gdf_localidad">>
SrcCol    == <<"REGION", "PROVINCIA", "COMUNA", "Localidad">>
OutCol    == <<"region", "provincia", "comuna", "localidad">>
LayerIdx  == 1..Len(LayerVars)

Nuble   == <<"U+00D1", "u", "b", "l", "e">>
Punilla == <<"P", "u", "n", "i", "l", "l", "a">>
Niquen  == <<"U+00D1", "i", "q", "u", "U+00E9", "n">>
Zemita  == <<"Z", "e", "m", "i", "t", "a">>

Feature(col, attr, geom) == << <<col, attr>>, <<"geometry", geom>> >>

\* What REGIONES_v1.shp, PROVINCIAS_v1.shp, COMUNAS_v1.shp and
\* Areas_Pobladas.shp hold when they can be read: one region, province and
\* commune around Niquen, and two populated areas that overlap there.
ShapeRows ==
    << << Feature("REGION",    Nuble,   Rect(-73, -37, -71, -35)) >>,
       << Feature("PROVINCIA", Punilla, Rect(-73, -37, -71, -35)) >>,
       << Feature("COMUNA",    Niquen,  Rect(-73, -37, -71, -35)) >>,
       << Feature("Localidad", Niquen,  Rect(-73, -37, -71, -35)),
          Feature("Localidad", Zemita,  Rect(-74, -38, -70, -34)) >> >>

\* A shapefile on disk: there and readable, or not.
Shapefile == [exists |-> TRUE]
NoFile    == [exists |-> FALSE]
NotLoaded == [loaded |-> FALSE, crs |-> 0, rows |-> <<>>]

\* gpd.read_file(path) of layer i: the frame, or an exception when the file
\* cannot be read
read_fileSwallowed(file, i) ==
    [raised |-> FALSE,
     frame  |-> IF file.exists
                THEN [loaded |-> TRUE, crs |-> WGS84, rows |-> ShapeRows[i]]
                ELSE NotLoaded]

read_file(file, i) ==
    [raised |-> ~file.exists,
     frame  |-> IF file.exists
                THEN [loaded |-> TRUE, crs |-> WGS84, rows |-> ShapeRows[i]]
                ELSE NotLoaded]

\* .to_crs(4326): the shapefiles above are stored in geographic coordinates
to_crs(frame, crs) == [frame EXCEPT !.crs = crs]

\* [[col, "geometry"]]
KeepCols(frame, cols) ==
    [frame EXCEPT !.rows = [i \in 1..Len(frame.rows) |-> Select(frame.rows[i], cols)]]

\* ------------------------------------------------------------------ sjoin
Indices(n) == [i \in 1..n |-> i]

\* The rows of `right` whose polygon the row's point is within, in the order
\* of the right frame.
Matching(row, right) ==
    SelectSeq(Indices(Len(right)),
              LAMBDA i : within(Get(row, "geometry"), Get(right[i], "geometry")))

\* One left row of gpd.sjoin(..., predicate="within", how="left"): the row
\* once per matching right row, or once with missing values when none matches.
JoinRow(row, right, col) ==
    LET m == Matching(row, right)
    IN  IF m = <<>>
        THEN << row \o << <<"index_right", NaN>>, <<col, NaN>> >> >>
        ELSE [k \in 1..Len(m) |->
                 row \o << <<"index_right", m[k] - 1>> >>
                     \o Drop(right[m[k]], "geometry")]

RECURSIVE sjoin(_, _, _)
sjoin(left, right, col) ==
    IF left = <<>> THEN <<>>
    ELSE JoinRow(Head(left), right, col) \o sjoin(Tail(left), right, col)

DropCol(rows, c) == [i \in 1..Len(rows) |-> Drop(rows[i], c)]

\* The module-level frames after add_admin_columns has run: it only reads
\* them (rename returns a copy).
LayersAfterJoinRenamedInPlace(g) ==
    [i \in LayerIdx |-> [g[i] EXCEPT !.rows = rename(@, SrcCol[i], OutCol[i])]]

LayersAfterJoin(g) == g

add_admin_columns(df, g) ==
    LET pts0 == [i \in 1..Len(df) |->
                    df[i] \o << <<"geometry",
                                  Point(Get(df[i], "lon"), Get(df[i], "lat"))>> >>]
        pts1 == DropCol(sjoin(pts0, rename(g[1].rows, "REGION", "region"),
                              "region"), "index_right")
        pts2 == DropCol(sjoin(pts1, rename(g[2].rows, "PROVINCIA", "provincia"),
                              "provincia"), "index_right")
        pts3 == DropCol(sjoin(pts2, rename(g[3].rows, "COMUNA", "comuna"),
                              "comuna"), "index_right")
        pts4 == DropCol(sjoin(pts3, rename(g[4].rows, "Localidad", "localidad"),
                              "localidad"), "index_right")
    IN  DropCol(pts4, "geometry")

\* ------------------------------------------------------- the uploaded file
\* A placemark of a .kml document: its name and its geometry.
Placemark(name, type, lon, lat) ==
    [Name |-> name, geometry |-> [type |-> type, x |-> Deg(lon), y |-> Deg(lat)]]

pIn   == Placemark("plaza", "Point", -72, -36)
pOut  == Placemark("faro", "Point", -110, -27)
pLine == Placemark("ruta", "LineString", -72, -36)

PointPlacemarks == {pIn, pOut}

RECURSIVE SeqsUpTo(_, _)
SeqsUpTo(S, n) ==
    IF n = 0 THEN {<<>>}
    ELSE LET shorter == SeqsUpTo(S, n - 1)
         IN  shorter \cup {Append(q, x) : q \in shorter, x \in S}

\* The documents an archive entry may hold: point placemarks only, or a path.
Docs == SeqsUpTo(PointPlacemarks, MaxPlacemarks) \cup {<<pLine>>}

\* Paths inside the archive, one component per directory level.
\* A document at the top, one in a subdirectory with its extension in upper
\* case, and a file that is no document in a directory named like one.
KmlLower  == << <<"d", ".", "k", "m", "l">> >>
KmlUpper  == << <<"f">>, <<"A", ".", "K", "M", "L">> >>
InKmlDir  == << <<"x", ".", "k", "m", "l">>, <<"n", ".", "t", "x", "t">> >>
UploadKmz == << <<"u", "p", "l", "o", "a", "d", ".", "k", "m", "z">> >>

Entries ==
    {[path |-> p, doc |-> d] : p \in {KmlLower, KmlUpper}, d \in Docs}
        \cup {[path |-> InKmlDir, doc |-> <<>>]}

\* No two members of the archive have the same name.
DistinctPaths(es) ==
    \A i, j \in 1..Len(es) : es[i].path = es[j].path => i = j

\* What file.read() may return: a zip archive, or bytes that are no archive.
NotZip   == [zip |-> FALSE, entries |-> <<>>]
Uploads  ==
    {[zip |-> TRUE, entries |-> es] :
        es \in {q \in SeqsUpTo(Entries, MaxFiles) : DistinctPaths(q)}}
        \cup {NotZip}
NoUpload == [zip |-> FALSE, entries |-> <<>>]

\* file.filename of an upload
FileNames == { <<"a", ".", "K", "M", "Z">>, <<"a", ".", "z", "i", "p">> }

\* ------------------------------------------------------ process_kmz_bytes
\* with tempfile.TemporaryDirectory() as tmp: the directory on entry, and
\* after the block is left, by return or by exception.
NoDir == [exists |-> FALSE, files |-> <<>>]

TemporaryDirectory == [exists |-> TRUE, files |-> <<>>]

TemporaryDirectoryExitOnReturnOnly(dir, raising) == IF raising THEN dir ELSE NoDir

TemporaryDirectoryExit(dir, raising) == NoDir

\* path.write_bytes(kmz_bytes)
write_bytes(dir) ==
    [dir EXCEPT !.files = Append(@, [path |-> UploadKmz, doc |-> <<>>])]

\* One entry written by extractall: a file of the same path is overwritten.
Extract(files, entry) ==
    IF \E i \in 1..Len(files) : files[i].path = entry.path
    THEN [i \in 1..Len(files) |->
             IF files[i].path = entry.path THEN entry ELSE files[i]]
    ELSE Append(files, entry)

RECURSIVE ExtractSeq(_, _)
ExtractSeq(files, entries) ==
    IF entries = <<>> THEN files
    ELSE ExtractSeq(Extract(files, Head(entries)), Tail(entries))

extractall(dir, kmz) == [dir EXCEPT !.files = ExtractSeq(@, kmz.entries)]

\* os.walk(tmp), top down: the files of a directory, then its subdirectories.
\* `files` all lie below the same directory, `depth` components deep.
RECURSIVE os_walk(_, _)
os_walk(files, depth) ==
    LET here  == SelectSeq(files, LAMBDA f : Len(f.path) = depth)
        below == SelectSeq(files, LAMBDA f : Len(f.path) > depth)
    IN  IF below = <<>> THEN here
        ELSE LET d     == below[1].path[depth]
                 inD   == SelectSeq(below, LAMBDA f : f.path[depth] = d)
                 other == SelectSeq(below, LAMBDA f : f.path[depth] # d)
             IN  here \o os_walk(inD, depth + 1) \o os_walk(other, depth)

IsKmlNameCaseSensitive(f) == endswith(f, DotKml)

\* f.lower().endswith(".kml")
IsKmlName(f) == endswith(lower(f), DotKml)

\* [Path(r, f) for r, _, files in os.walk(tmp) for f in files if ...]
ListKml(dir) ==
    LET found == SelectSeq(os_walk(dir.files, 1),
                           LAMBDA f : IsKmlName(f.path[Len(f.path)]))
    IN  [i \in 1..Len(found) |-> found[i].path]

FileAt(dir, path) ==
    dir.files[CHOOSE i \in 1..Len(dir.files) : dir.files[i].path = path]

\* base = pd.DataFrame({"Name", "lon", "lat", "responsable"})
BaseFrame(gdfKml) ==
    [i \in 1..Len(gdfKml) |->
        << <<"Name", gdfKml[i].Name>>,
           <<"lon", gdfKml[i].geometry.x>>,
           <<"lat", gdfKml[i].geometry.y>>,
           <<"responsable", "">> >>]

\* base = pd.concat([base, base.apply(lonlat_to_utm ...)], axis=1)
WithUtm(base) ==
    [i \in 1..Len(base) |->
        LET utm == lonlat_to_utm(Get(base[i], "lon"), Get(base[i], "lat"))
        IN  base[i] \o << <<"xx", utm[1]>>, <<"yy", utm[2]>>, <<"UTM_zone", utm[3]>> >>]

SinLocalidad == <<"S", "i", "n", " ", "l", "o", "c", "a", "l", "i", "d", "a", "d">>

OutputColumnsResponsableFirst ==
    <<"responsable", "Name", "lon", "lat", "xx", "yy", "UTM_zone",
      "region", "provincia", "comuna", "localidad">>

OutputColumns ==
    <<"Name", "lon", "lat", "xx", "yy", "UTM_zone",
      "region", "provincia", "comuna", "localidad", "responsable">>

\* gdf.geometry.x raises for a geometry that is no Point; a document without
\* placemarks gives an empty frame, on which the row-wise apply adds no xx,
\* yy, UTM_zone columns, so that the later column selection raises.
DocumentRaises(doc) ==
    \/ doc = <<>>
    \/ \E i \in 1..Len(doc) : doc[i].geometry.type # "Point"

LoopBodySkippingBadDocuments(doc, g) ==
    IF DocumentRaises(doc)
    THEN [raised |-> FALSE, msg |-> "", rows |-> <<>>]
    ELSE LET full == fillna(add_admin_columns(WithUtm(BaseFrame(doc)), g),
                            "localidad", SinLocalidad)
         IN  [raised |-> FALSE, msg |-> "",
              rows |-> [i \in 1..Len(full) |-> Select(full[i], OutputColumns)]]

\* One turn of `for kml in kml_files`, on the document read from that file
\* and the module-level frames g: an exception, or the records to add.
LoopBody(doc, g) ==
    IF DocumentRaises(doc)
    THEN [raised |-> TRUE, msg |-> "document cannot be processed", rows |-> <<>>]
    ELSE LET full == fillna(add_admin_columns(WithUtm(BaseFrame(doc)), g),
                            "localidad", SinLocalidad)
         IN  [raised |-> FALSE, msg |-> "",
              rows |-> [i \in 1..Len(full) |-> Select(full[i], OutputColumns)]]

\* ----------------------------------------------------------------- state
VARIABLES
    disk,       \* the four shapefiles as they are on disk at start
    boot,       \* where the module's import stands
    bootIdx,    \* the next layer to load or to normalize
    gdf,        \* gdf_region, gdf_provincia, gdf_comuna, gdf_localidad
    nLoads,     \* how often each layer has been read from disk
    nNorm,      \* how often each layer's attribute has been normalized
    loop,       \* the request whose coroutine the event loop is running, or 0
    pc,         \* per request: where upload_kmz stands
    kmz,        \* per request: the bytes file.read() returned
    tmp,        \* per request: the scratch directory
    kml_files,  \* per request: the paths found by the walk
    idx,        \* per request: how many of kml_files the loop has done
    recs,       \* per request: the records so far
    resp,       \* per request: what upload_kmz hands to the framework
    arg,        \* a longitude and latitude given to lonlat_to_utm
    ret         \* what lonlat_to_utm returned for arg

vars == <<disk, boot, bootIdx, gdf, nLoads, nNorm, loop, pc, kmz, tmp,
          kml_files, idx, recs, resp, arg, ret>>

bootVars == <<boot, bootIdx, gdf, nLoads, nNorm>>
utmVars  == <<arg, ret>>

Requests == 1..NumReq

NoResp == [kind |-> "none", status |-> 0, detail |-> <<>>, body |-> <<>>]
NoArg  == [lon |-> 0, lat |-> 0]
NoRet  == [done |-> FALSE, e |-> NoArg, n |-> NoArg, label |-> <<>>]

\* raise HTTPException(status, detail)
HTTPException(status, detail) ==
    [kind |-> "error", status |-> status, detail |-> detail, body |-> <<>>]

\* return data
JSONResponse(data) ==
    [kind |-> "json", status |-> 200, detail |-> <<>>, body |-> data]

Disks ==
    {[i \in LayerIdx |-> IF i \in S THEN Shapefile ELSE NoFile] :
        S \in SUBSET LayerIdx}

InitService ==
    /\ boot = "load"
    /\ bootIdx = 1
    /\ gdf = [i \in LayerIdx |-> NotLoaded]
    /\ nLoads = [i \in LayerIdx |-> 0]
    /\ nNorm = [i \in LayerIdx |-> 0]
    /\ loop = 0
    /\ pc = [r \in Requests |-> "idle"]
    /\ kmz = [r \in Requests |-> NoUpload]
    /\ tmp = [r \in Requests |-> NoDir]
    /\ kml_files = [r \in Requests |-> <<>>]
    /\ idx = [r \in Requests |-> 0]
    /\ recs = [r \in Requests |-> <<>>]
    /\ resp = [r \in Requests |-> NoResp]

Init ==
    /\ disk \in Disks
    /\ InitService
    /\ arg = NoArg
    /\ ret = NoRet

\* ------------------------------------------------- import of the module
\* gdf_x = gpd.read_file(X_SH).to_crs(4326)[[col, "geometry"]], one layer per
\* step, in the order of the source.  An exception ends the import: the
\* application object is never served.
LoadLayer ==
    /\ boot = "load"
    /\ LET i   == bootIdx
           got == read_file(disk[i], i)
       IN  IF got.raised
           THEN /\ boot' = "crashed"
                /\ UNCHANGED <<bootIdx, gdf, nLoads>>
           ELSE /\ gdf' = [gdf EXCEPT ![i] =
                             KeepCols(to_crs(got.frame, WGS84),
                                      <<SrcCol[i], "geometry">>)]
                /\ nLoads' = [nLoads EXCEPT ![i] = @ + 1]
                /\ IF i < Len(LayerVars)
                   THEN bootIdx' = i + 1 /\ boot' = boot
                   ELSE bootIdx' = 1 /\ boot' = "normalize"
    /\ UNCHANGED <<disk, nNorm, loop, pc, kmz, tmp, kml_files, idx, recs, resp>>
    /\ UNCHANGED utmVars

\* for col_df, col_name in [...]: col_df[col_name] = ....apply(quitar_tildes)
NormalizeLayer ==
    /\ boot = "normalize"
    /\ LET i == bootIdx
       IN  /\ gdf' = [gdf EXCEPT ![i].rows = ApplyQuitarTildes(@, SrcCol[i])]
           /\ nNorm' = [nNorm EXCEPT ![i] = @ + 1]
           /\ IF i < Len(LayerVars)
              THEN bootIdx' = i + 1 /\ boot' = boot
              ELSE bootIdx' = 1 /\ boot' = "serving"
    /\ UNCHANGED <<disk, nLoads, loop, pc, kmz, tmp, kml_files, idx, recs, resp>>
    /\ UNCHANGED utmVars

\* --------------------------------------------------------------- upload_kmz
\* The coroutine of a request runs on the one event loop: between two awaits
\* no other coroutine runs.  process_kmz_bytes is called synchronously, so a
\* request holds the loop from the return of `await file.read()` until
\* upload_kmz returns or raises.
ClearLocals(r) ==
    /\ kml_files' = [kml_files EXCEPT ![r] = <<>>]
    /\ idx' = [idx EXCEPT ![r] = 0]
    /\ recs' = [recs EXCEPT ![r] = <<>>]

\* An exception inside the with block: the block is left, process_kmz_bytes
\* raises, and upload_kmz turns the exception into an HTTP 500.
Raise(r, msg) ==
    /\ tmp' = [tmp EXCEPT ![r] = TemporaryDirectoryExit(@, TRUE)]
    /\ resp' = [resp EXCEPT ![r] =
                  HTTPException(ServerError, <<"Error procesando KMZ: ", msg>>)]
    /\ pc' = [pc EXCEPT ![r] = "finished"]
    /\ ClearLocals(r)

\* A request arrives: the extension check, then `await file.read()`.
Arrive(r, name) ==
    /\ boot = "serving"
    /\ loop = 0
    /\ pc[r] = "idle"
    /\ IF endswith(lower(name), DotKmz)
       THEN /\ pc' = [pc EXCEPT ![r] = "await_read"]
            /\ UNCHANGED <<loop, resp>>
       ELSE /\ pc' = [pc EXCEPT ![r] = "finished"]
            /\ loop' = r
            /\ resp' = [resp EXCEPT ![r] =
                          HTTPException(BadRequest, <<"Solo se aceptan archivos KMZ.">>)]
    /\ UNCHANGED <<disk, kmz, tmp, kml_files, idx, recs>>
    /\ UNCHANGED bootVars
    /\ UNCHANGED utmVars

\* file.read() returns; process_kmz_bytes is entered and creates its scratch
\* directory.
ReadDone(r, bytes) ==
    /\ loop = 0
    /\ pc[r] = "await_read"
    /\ loop' = r
    /\ kmz' = [kmz EXCEPT ![r] = bytes]
    /\ tmp' = [tmp EXCEPT ![r] = TemporaryDirectory]
    /\ pc' = [pc EXCEPT ![r] = "write"]
    /\ UNCHANGED <<disk, kml_files, idx, recs, resp>>
    /\ UNCHANGED bootVars
    /\ UNCHANGED utmVars

\* 1) path.write_bytes(kmz_bytes); the write may fail (OSError).
WriteUpload(r, ok) ==
    /\ loop = r
    /\ pc[r] = "write"
    /\ IF ok
       THEN /\ tmp' = [tmp EXCEPT ![r] = write_bytes(@)]
            /\ pc' = [pc EXCEPT ![r] = "unzip"]
            /\ UNCHANGED <<kml_files, idx, recs, resp>>
       ELSE Raise(r, "OSError")
    /\ UNCHANGED <<disk, loop, kmz>>
    /\ UNCHANGED bootVars
    /\ UNCHANGED utmVars

\* 2) zipfile.ZipFile(path).extractall(tmp)
Unzip(r) ==
    /\ loop = r
    /\ pc[r] = "unzip"
    /\ IF kmz[r].zip
       THEN /\ tmp' = [tmp EXCEPT ![r] = extractall(@, kmz[r])]
            /\ pc' = [pc EXCEPT ![r] = "walk"]
            /\ UNCHANGED <<kml_files, idx, recs, resp>>
       ELSE Raise(r, "File is not a zip file")
    /\ UNCHANGED <<disk, loop, kmz>>
    /\ UNCHANGED bootVars
    /\ UNCHANGED utmVars

\* 3) kml_files = [...]; if not kml_files: raise ValueError; recs = []
Walk(r) ==
    /\ loop = r
    /\ pc[r] = "walk"
    /\ LET found == ListKml(tmp[r])
       IN  IF found = <<>>
           THEN Raise(r, "KMZ sin KML interno.")
           ELSE /\ kml_files' = [kml_files EXCEPT ![r] = found]
                /\ idx' = [idx EXCEPT ![r] = 0]
                /\ recs' = [recs EXCEPT ![r] = <<>>]
                /\ pc' = [pc EXCEPT ![r] = "loop"]
                /\ UNCHANGED <<tmp, resp>>
    /\ UNCHANGED <<disk, loop, kmz>>
    /\ UNCHANGED bootVars
    /\ UNCHANGED utmVars

\* One turn of the loop over kml_files.
LoopTurn(r) ==
    /\ loop = r
    /\ pc[r] = "loop"
    /\ idx[r] < Len(kml_files[r])
    /\ LET kml == kml_files[r][idx[r] + 1]
           out == LoopBody(FileAt(tmp[r], kml).doc, gdf)
       IN  IF out.raised
           THEN Raise(r, out.msg) /\ UNCHANGED <<boot, bootIdx, nLoads, nNorm>>
           ELSE /\ recs' = [recs EXCEPT ![r] = @ \o out.rows]
                /\ idx' = [idx EXCEPT ![r] = @ + 1]
                /\ UNCHANGED <<pc, tmp, kml_files, resp>>
                /\ UNCHANGED <<boot, bootIdx, nLoads, nNorm>>
    /\ gdf' = LayersAfterJoin(gdf)
    /\ UNCHANGED <<disk, loop, kmz>>
    /\ UNCHANGED utmVars

\* return recs: the with block is left and upload_kmz returns the list.
Return(r) ==
    /\ loop = r
    /\ pc[r] = "loop"
    /\ idx[r] = Len(kml_files[r])
    /\ tmp' = [tmp EXCEPT ![r] = TemporaryDirectoryExit(@, FALSE)]
    /\ resp' = [resp EXCEPT ![r] = JSONResponse(recs[r])]
    /\ pc' = [pc EXCEPT ![r] = "finished"]
    /\ ClearLocals(r)
    /\ UNCHANGED <<disk, loop, kmz>>
    /\ UNCHANGED bootVars
    /\ UNCHANGED utmVars

\* The framework takes the result of upload_kmz and sends it; the coroutine
\* is over and the loop is free.
Send(r) ==
    /\ loop = r
    /\ pc[r] = "finished"
    /\ loop' = 0
    /\ pc' = [pc EXCEPT ![r] = "idle"]
    /\ resp' = [resp EXCEPT ![r] = NoResp]
    /\ kmz' = [kmz EXCEPT ![r] = NoUpload]
    /\ UNCHANGED <<disk, tmp, kml_files, idx, recs>>
    /\ UNCHANGED bootVars
    /\ UNCHANGED utmVars

Next ==
    \/ LoadLayer
    \/ NormalizeLayer
    \/ \E r \in Requests, name \in FileNames : Arrive(r, name)
    \/ \E r \in Requests, bytes \in Uploads : ReadDone(r, bytes)
    \/ \E r \in Requests, ok \in BOOLEAN : WriteUpload(r, ok)
    \/ \E r \in Requests : Unzip(r)
    \/ \E r \in Requests : Walk(r)
    \/ \E r \in Requests : LoopTurn(r)
    \/ \E r \in Requests : Return(r)
    \/ \E r \in Requests : Send(r)

Spec == Init /\ [][Next]_vars

\* ------------------------------------------- lonlat_to_utm on its own
\* Every longitude and latitude the data model admits, on the fixed-point
\* grid.
Longitudes == Deg(-180)..Deg(180)
Latitudes  == Deg(-90)..Deg(90)

InitUTM ==
    /\ disk = [i \in LayerIdx |-> NoFile]
    /\ InitService
    /\ arg \in [lon : Longitudes, lat : Latitudes]
    /\ ret = NoRet

Project ==
    /\ ~ret.done
    /\ LET utm == lonlat_to_utm(arg.lon, arg.lat)
       IN  ret' = [done |-> TRUE, e |-> utm[1], n |-> utm[2], label |-> utm[3]]
    /\ UNCHANGED <<disk, loop, pc, kmz, tmp, kml_files, idx, recs, resp, arg>>
    /\ UNCHANGED bootVars

NextUTM == Project

SpecUTM == InitUTM /\ [][NextUTM]_vars

\* ================================================================ claims
\* What the claims are measured against, stated without the operators above.

\* A file name that ends in .kml, in any mix of cases.
EndsInKml(name) ==
    /\ Len(name) >= 4
    /\ name[Len(name) - 3] = "."
    /\ name[Len(name) - 2] \in {"k", "K"}
    /\ name[Len(name) - 1] \in {"m", "M"}
    /\ name[Len(name)] \in {"l", "L"}

FileName(path) == path[Len(path)]

HasKmlEntry(upload) ==
    \E i \in 1..Len(upload.entries) : EndsInKml(FileName(upload.entries[i].path))

\* The documents of an upload as the walk meets them.
EmbeddedDocs(upload) ==
    LET files == SelectSeq(os_walk(ExtractSeq(<<>>, upload.entries), 1),
                           LAMBDA f : EndsInKml(FileName(f.path)))
    IN  [i \in 1..Len(files) |-> files[i].doc]

RECURSIVE Flatten(_)
Flatten(ss) == IF ss = <<>> THEN <<>> ELSE Head(ss) \o Flatten(Tail(ss))

\* The four layers as they must stand in memory: the attribute without
\* diacritics, the geometry as on disk.
NormalizedRows ==
    << << Feature("REGION", <<"N", "u", "b", "l", "e">>,
                  Rect(-73, -37, -71, -35)) >>,
       << Feature("PROVINCIA", <<"P", "u", "n", "i", "l", "l", "a">>,
                  Rect(-73, -37, -71, -35)) >>,
       << Feature("COMUNA", <<"N", "i", "q", "u", "e", "n">>,
                  Rect(-73, -37, -71, -35)) >>,
       << Feature("Localidad", <<"N", "i", "q", "u", "e", "n">>,
                  Rect(-73, -37, -71, -35)),
          Feature("Localidad", <<"Z", "e", "m", "i", "t", "a">>,
                  Rect(-74, -38, -70, -34)) >> >>

ExpectedLayers ==
    [i \in LayerIdx |-> [loaded |-> TRUE, crs |-> WGS84, rows |-> NormalizedRows[i]]]

Answered(r) == pc[r] = "finished"
Listed(r)   == Answered(r) /\ resp[r].kind = "json"
Failed(r)   == Answered(r) /\ resp[r].kind = "error"

NoKmlDetail == <<"Error procesando KMZ: ", "KMZ sin KML interno.">>
BadDocDetail == <<"Error procesando KMZ: ", "document cannot be processed">>

\* C1: every returned list holds exactly one record per point placemark of
\* the embedded documents, in document order and then placemark order.
C1_OneRecordPerPlacemark ==
    \A r \in Requests :
        Listed(r) =>
            LET marks == Flatten(EmbeddedDocs(kmz[r]))
            IN  [k \in 1..Len(resp[r].body) |-> Get(resp[r].body[k], "Name")]
                    = [k \in 1..Len(marks) |-> marks[k].Name]

\* C2: in every record each of the four layer fields holds one text value:
\* the attribute of the first polygon of the layer that contains the point,
\* or a "not found" text when none does; never a missing value.
C2_OneValuePerLayer ==
    \A r \in Requests :
        Listed(r) =>
            \A k \in 1..Len(resp[r].body), i \in LayerIdx :
                LET rec  == resp[r].body[k]
                    v    == Get(rec, OutCol[i])
                    pt   == Point(Get(rec, "lon"), Get(rec, "lat"))
                    hits == {j \in 1..Len(NormalizedRows[i]) :
                                within(pt, Get(NormalizedRows[i][j], "geometry"))}
                    first == CHOOSE j \in hits : \A j2 \in hits : j <= j2
                IN  /\ v # NaN
                    /\ hits # {} => v = Get(NormalizedRows[i][first], SrcCol[i])
                    /\ (hits = {} /\ OutCol[i] = "localidad") => v = SinLocalidad

\* The value of a sequence of decimal digits.
DigitValue(c) == (CHOOSE i \in 1..Len(Digits) : Digits[i] = c) - 1

RECURSIVE DecimalValue(_)
DecimalValue(ds) ==
    IF ds = <<>> THEN 0
    ELSE 10 * DecimalValue(SubSeq(ds, 1, Len(ds) - 1)) + DigitValue(ds[Len(ds)])

\* C3: for a longitude in [-180, 180) the label is the number
\* floor((lon + 180) / 6) + 1, which is in 1..60, in decimal, followed by S
\* when the latitude is negative and by N otherwise.  The sum is read as the
\* float the program computes, the weakest reading of the claim.
C3_ZoneLabel ==
    (ret.done /\ arg.lon < Deg(180)) =>
        LET number == SubSeq(ret.label, 1, Len(ret.label) - 1)
            letter == ret.label[Len(ret.label)]
            sum    == fadd(arg.lon, Deg(180))
        IN  /\ \A k \in 1..Len(number) : InSeq(number[k], Digits)
            /\ number[1] # "0"
            /\ \E z \in 1..60 :
                  /\ Deg(6) * (z - 1) <= sum
                  /\ sum < Deg(6) * z
                  /\ DecimalValue(number) = z
            /\ letter = (IF arg.lat < 0 THEN "S" ELSE "N")

\* C4: for a longitude in [-180, 180] and a latitude in [-90, 90] the CRS the
\* transformer is built for is that of a UTM zone: 32601..32660 when the
\* latitude is not negative, 32701..32760 when it is.
C4_StandardUtmEpsg ==
    ret.done =>
        /\ ret.e.to = ret.n.to
        /\ arg.lat >= 0 => ret.e.to \in 32601..32660
        /\ arg.lat < 0 => ret.e.to \in 32701..32760

\* C5: an archive without an entry whose file name ends in .kml, in any case
\* and at any depth, ends in an error and no list; an archive with such an
\* entry never ends in the "no KML inside" error.
C5_NoKmlIsAnError ==
    \A r \in Requests :
        (Answered(r) /\ kmz[r].zip) =>
            /\ ~HasKmlEntry(kmz[r]) =>
                  /\ Failed(r)
                  /\ resp[r].body = <<>>
                  /\ resp[r].detail \in
                        {NoKmlDetail, <<"Error procesando KMZ: ", "OSError">>}
            /\ HasKmlEntry(kmz[r]) => resp[r].detail # NoKmlDetail

C5_Witness ==
    \E r \in Requests :
        /\ Failed(r)
        /\ kmz[r].zip
        /\ kmz[r].entries # <<>>
        /\ resp[r].detail = NoKmlDetail

\* C6: a list is returned only when every embedded document was processed;
\* a failure at any step gives one error response that carries no record,
\* and nothing is handed out before the end.
C6_AllOrNothing ==
    \A r \in Requests :
        LET docs == EmbeddedDocs(kmz[r])
            bad  == \E k \in 1..Len(docs) :
                        \/ docs[k] = <<>>
                        \/ \E j \in 1..Len(docs[k]) :
                              docs[k][j].geometry.type # "Point"
        IN  /\ ~Answered(r) => resp[r] = NoResp
            /\ Failed(r) => resp[r].body = <<>>
            /\ Listed(r) => (kmz[r].zip /\ docs # <<>> /\ ~bad)
            /\ (Answered(r) /\ kmz[r].zip /\ bad) =>
                  (Failed(r) /\ resp[r].status = ServerError)

\* A later document fails after an earlier one was processed.
C6_Witness ==
    \E r \in Requests :
        /\ Failed(r)
        /\ resp[r].detail = BadDocDetail
        /\ EmbeddedDocs(kmz[r]) = << <<pIn>>, <<pLine>> >>

\* C7: the scratch directory of a request exists only while
\* process_kmz_bytes runs; it is gone once the call has returned or raised.
C7_ScratchReleased ==
    \A r \in Requests :
        /\ pc[r] \in {"idle", "await_read", "finished"} => tmp[r] = NoDir
        /\ pc[r] \in {"write", "unzip", "walk", "loop"} => tmp[r].exists

\* An exception in the loop, after the archive was unpacked.
C7_Witness ==
    \E r \in Requests :
        /\ Failed(r)
        /\ resp[r].detail = BadDocDetail
        /\ tmp[r] = NoDir

\* What a request returns when it is the only one: the records of its
\* documents, against the layers as loaded.
RECURSIVE AloneRecords(_)
AloneRecords(docs) ==
    IF docs = <<>> THEN <<>>
    ELSE LoopBody(Head(docs), ExpectedLayers).rows \o AloneRecords(Tail(docs))

\* C8: while requests are served the four layers stay as loaded, and every
\* list returned is the one the request would get on its own.
C8_LayersReadOnly ==
    /\ boot = "serving" => gdf = ExpectedLayers
    /\ \A r \in Requests :
          Listed(r) => resp[r].body = AloneRecords(EmbeddedDocs(kmz[r]))

\* A list is returned while another request is in flight.
C8_Witness ==
    \E r1, r2 \in Requests :
        /\ r1 # r2
        /\ Listed(r1)
        /\ resp[r1].body # <<>>
        /\ pc[r2] = "await_read"

\* C9: each layer is loaded once and normalized once, before any request; a
\* request is handled only with all four layers complete, and never when a
\* shapefile could not be read.
C9_LayersLoadedBeforeServing ==
    /\ \A i \in LayerIdx : nLoads[i] <= 1 /\ nNorm[i] <= 1
    /\ (\E r \in Requests : pc[r] # "idle") => boot = "serving"
    /\ boot = "serving" =>
          \A i \in LayerIdx :
              /\ disk[i].exists
              /\ nLoads[i] = 1
              /\ nNorm[i] = 1
              /\ gdf[i].loaded
              /\ gdf[i].rows = NormalizedRows[i]

C9_Witness ==
    /\ boot = "serving"
    /\ \E r \in Requests : pc[r] = "loop" /\ recs[r] # <<>>

FieldNames(rec) == [k \in 1..Len(rec) |-> rec[k][1]]

\* C10, as the code has it: the fields of every record are Name, lon, lat,
\* xx, yy, UTM_zone, region, provincia, comuna, localidad, responsable, in
\* this order, and responsable is the empty string.
C10_FieldsInOrder ==
    \A r \in Requests :
        Listed(r) =>
            \A k \in 1..Len(resp[r].body) :
                /\ FieldNames(resp[r].body[k]) =
                      <<"Name", "lon", "lat", "xx", "yy", "UTM_zone", "region",
                        "provincia", "comuna", "localidad", "responsable">>
                /\ resp[r].body[k][11][2] = ""

C10_Witness ==
    \E r \in Requests : Listed(r) /\ resp[r].body # <<>>

\* C10, as claimed: the last field is named responsible.
C10_FieldNamedResponsible ==
    \A r \in Requests :
        Listed(r) =>
            \A k \in 1..Len(resp[r].body) :
                /\ FieldNames(resp[r].body[k]) =
                      <<"Name", "lon", "lat", "xx", "yy", "UTM_zone", "region",
                        "provincia", "comuna", "localidad", "responsible">>
                /\ resp[r].body[k][11][2] = ""

====
